---- MODULE Spec2Model ----
(***************************************************************************)
(* A model of pdf_stitcher.py: the command line entry point main, the      *)
(* directory resolver find_pdf_files and the class PDFStitcher (add_pdf,   *)
(* save_stitched_pdf, get_stats).                                          *)
(*                                                                         *)
(* A path is a sequence of character codes, so that sorted() is the        *)
(* lexicographic order Python uses on strings.  All paths lie in one       *)
(* directory; the directory part that os.path.join puts in front of every  *)
(* glob match is the same for all of them and is left out.                 *)
(*                                                                         *)
(* The environment supplies: the command line (files, input_dir, pattern,  *)
(* no_source), the set of paths that are files, the order glob lists the   *)
(* matches in, what each open()/PdfReader() finds, whether a click.echo    *)
(* inside add_pdf raises, and whether the final write succeeds.  The       *)
(* console writes main makes itself change no state of the stitcher and    *)
(* are taken to succeed; --verbose only prints and is left out.            *)
(***************************************************************************)
EXTENDS Integers, Sequences, FiniteSets, TLC

\* ------------------------------------------------------------------ bounds
\* largest page count of an input document
MaxPages == 2
\* largest number of --files options on the command line
MaxFiles == 2

\* ------------------------------------------------------- the environment
\* the wildcard character of a glob pattern
Star == 0

\* the paths the command line and the directory may name
Paths == { <<1>>, <<1, 2>>, <<2>> }

\* the values of --pattern: "*" and "1*"
Patterns == { <<Star>>, <<1, Star>> }

\* --input-dir: not given, an existing directory, a missing directory
InputDirs == { "none", "present", "missing" }

\* what open() and PdfReader() find at a path: a file that cannot be opened
\* or parsed, an encrypted document (its page count is never read), or a
\* document of npages pages of which the first `good` can be copied
Docs ==
  { [kind |-> "corrupt", npages |-> 0, good |-> 0],
    [kind |-> "encrypted", npages |-> 0, good |-> 0] }
  \cup UNION { { [kind |-> "pdf", npages |-> n, good |-> g] : g \in 0..n } :
                n \in 1..MaxPages }

SeqsUpTo(S, n) == UNION { [1..k -> S] : k \in 0..n }

VARIABLES
  files,            \* --files, in command line order
  input_dir,        \* --input-dir
  pattern,          \* --pattern
  no_source,        \* --no_source
  isfile,           \* the paths os.path.isfile holds of
  pc,               \* main's position
  exited,           \* the process has ended
  exit_code,        \* its exit code, once exited
  listing,          \* what glob.glob returned
  pdf_files,        \* main's pdf_files
  include_source,   \* PDFStitcher.include_source
  writer,           \* PDFStitcher.writer.pages
  processed_files,  \* PDFStitcher.processed_files
  failed_files,     \* PDFStitcher.failed_files
  calls,            \* the add_pdf calls made: path and what was found there
  escaped,          \* an exception left add_pdf
  saved,            \* save_stitched_pdf: "none" (not called), "ok", "fail"
  output,           \* the pages in the output file
  stats,            \* main's stats
  summary           \* the statistics have been printed

vars == << files, input_dir, pattern, no_source, isfile, pc, exited, exit_code,
           listing, pdf_files, include_source, writer, processed_files,
           failed_files, calls, escaped, saved, output, stats, summary >>

\* ------------------------------------------------------------- resolver
\* str.__lt__: lexicographic by character code, a proper prefix first
RECURSIVE LexLess(_, _)
LexLess(a, b) ==
  IF b = <<>> THEN FALSE
  ELSE IF a = <<>> THEN TRUE
  ELSE IF Head(a) < Head(b) THEN TRUE
  ELSE IF Head(a) > Head(b) THEN FALSE
  ELSE LexLess(Tail(a), Tail(b))

RECURSIVE Insert(_, _)
Insert(x, s) ==
  IF s = <<>> THEN << x >>
  ELSE IF LexLess(Head(s), x) THEN << Head(s) >> \o Insert(x, Tail(s))
  ELSE << x >> \o s

RECURSIVE InsertionSort(_)
InsertionSort(s) ==
  IF s = <<>> THEN <<>> ELSE Insert(Head(s), InsertionSort(Tail(s)))

sorted_identity(s) == s

\* sorted(pdf_files)
sorted(s) == InsertionSort(s)

\* fnmatch: a Star matches any run of characters, any other character itself
RECURSIVE fnmatch(_, _)
fnmatch(name, pat) ==
  IF pat = <<>> THEN name = <<>>
  ELSE IF Head(pat) = Star
       THEN fnmatch(name, Tail(pat)) \/ (name # <<>> /\ fnmatch(Tail(name), pat))
  ELSE name # <<>> /\ Head(name) = Head(pat) /\ fnmatch(Tail(name), Tail(pat))

\* the directory entries the pattern matches
Matches(pat) == { p \in isfile : fnmatch(p, pat) }

\* glob.glob: the matches, in whatever order the file system lists them
Listings(pat) ==
  { s \in [1..Cardinality(Matches(pat)) -> Matches(pat)] :
      \A i, j \in DOMAIN s : i # j => s[i] # s[j] }

\* find_pdf_files, given what glob.glob returned
find_pdf_files(globbed) == sorted(globbed)

validation_only_empty(pf, ex) == pf = <<>>

\* main's two checks of the resolved list: it is empty, or one of its paths
\* is not a file
validation_fails(pf, ex) ==
  pf = <<>> \/ \E i \in DOMAIN pf : pf[i] \notin ex

\* ------------------------------------------------------------- stitcher
LabelPage(p) == [kind |-> "label", src |-> p, n |-> 0]
ContentPage(p, i) == [kind |-> "content", src |-> p, n |-> i]

source_pages_none(incl, p) == <<>>

\* the pages add_pdf takes from create_source_page before it opens the file
source_pages(incl, p) == IF incl THEN << LabelPage(p) >> ELSE <<>>

\* the first k pages of the document at p
ContentPages(p, k) == [i \in 1..k |-> ContentPage(p, i)]

\* add_pdf on path p where the environment finds d; echo_ok: the click.echo
\* in the try block returns, handler_ok: the click.echo of the except
\* handler returns.  ret is "True", "False" or "raise".
add_pdf(w, proc, fail, incl, p, d, echo_ok, handler_ok) ==
  LET labelled == w \o source_pages(incl, p)
      copied == labelled \o ContentPages(p, d.good)
      handler(w2, proc2) ==
        IF handler_ok
        THEN [writer |-> w2, processed |-> proc2, failed |-> Append(fail, p), ret |-> "False"]
        ELSE [writer |-> w2, processed |-> proc2, failed |-> fail, ret |-> "raise"]
  IN  IF d.kind = "corrupt" THEN handler(labelled, proc)
      ELSE IF d.kind = "encrypted"
           THEN IF echo_ok
                THEN [writer |-> labelled, processed |-> proc,
                      failed |-> Append(fail, p), ret |-> "False"]
                ELSE handler(labelled, proc)
      ELSE IF d.good < d.npages THEN handler(copied, proc)
      ELSE IF echo_ok
           THEN [writer |-> copied, processed |-> Append(proc, p),
                 failed |-> fail, ret |-> "True"]
           ELSE handler(copied, Append(proc, p))

NoStats == [processed |-> -1, failed |-> -1, total_pages |-> -1]

get_stats(w, proc, fail) ==
  [processed |-> Len(proc), failed |-> Len(fail), total_pages |-> Len(w)]

stats_always(ok, w, proc, fail) == get_stats(w, proc, fail)

\* main after save_stitched_pdf returned ok: the statistics it holds
stats_after_save(ok, w, proc, fail) ==
  IF ok THEN get_stats(w, proc, fail) ELSE NoStats

\* ----------------------------------------------------------------- main
Init ==
  /\ files \in SeqsUpTo(Paths, MaxFiles)
  /\ input_dir \in InputDirs
  /\ pattern \in Patterns
  /\ no_source \in BOOLEAN
  /\ isfile \in SUBSET Paths
  /\ pc = "start"
  /\ exited = FALSE
  /\ exit_code = 0
  /\ listing = <<>>
  /\ pdf_files = <<>>
  /\ include_source = TRUE
  /\ writer = <<>>
  /\ processed_files = <<>>
  /\ failed_files = <<>>
  /\ calls = <<>>
  /\ escaped = FALSE
  /\ saved = "none"
  /\ output = <<>>
  /\ stats = NoStats
  /\ summary = FALSE

Exit(code) == exited' = TRUE /\ exit_code' = code

\* main: determine which files to process
Resolve ==
  /\ pc = "start" /\ ~exited
  /\ \/ /\ files # <<>>
        /\ pdf_files' = files
        /\ pc' = "validate"
        /\ UNCHANGED << listing, exited, exit_code >>
     \/ /\ files = <<>> /\ input_dir = "missing"
        /\ Exit(1)
        /\ UNCHANGED << listing, pdf_files, pc >>
     \/ /\ files = <<>> /\ input_dir # "missing"
        /\ \E g \in Listings(pattern) :
             /\ listing' = g
             /\ pdf_files' = find_pdf_files(g)
        /\ pc' = "validate"
        /\ UNCHANGED << exited, exit_code >>
  /\ UNCHANGED << files, input_dir, pattern, no_source, isfile, include_source,
                  writer, processed_files, failed_files, calls, escaped, saved,
                  output, stats, summary >>

\* main: the empty check, the existence check, and the stitcher's construction
Validate ==
  /\ pc = "validate" /\ ~exited
  /\ \/ /\ validation_fails(pdf_files, isfile)
        /\ Exit(1)
        /\ UNCHANGED << pc, include_source >>
     \/ /\ ~validation_fails(pdf_files, isfile)
        /\ include_source' = ~no_source
        /\ pc' = "process"
        /\ UNCHANGED << exited, exit_code >>
  /\ UNCHANGED << files, input_dir, pattern, no_source, isfile, listing, pdf_files,
                  writer, processed_files, failed_files, calls, escaped, saved,
                  output, stats, summary >>

\* main: one turn of the loop over pdf_files
AddPdf ==
  /\ pc = "process" /\ ~exited
  /\ Len(calls) < Len(pdf_files)
  /\ \E d \in Docs, echo_ok \in BOOLEAN, handler_ok \in BOOLEAN :
       LET p == pdf_files[Len(calls) + 1]
           r == add_pdf(writer, processed_files, failed_files, include_source,
                        p, d, echo_ok, handler_ok)
       IN  /\ writer' = r.writer
           /\ processed_files' = r.processed
           /\ failed_files' = r.failed
           /\ calls' = Append(calls, [path |-> p, doc |-> d])
           /\ IF r.ret = "raise"
              THEN /\ escaped' = TRUE
                   /\ Exit(1)
                   /\ pc' = pc
              ELSE /\ pc' = IF Len(calls) + 1 = Len(pdf_files) THEN "save" ELSE "process"
                   /\ UNCHANGED << escaped, exited, exit_code >>
  /\ UNCHANGED << files, input_dir, pattern, no_source, isfile, listing, pdf_files,
                  include_source, saved, output, stats, summary >>

\* main: save_stitched_pdf, then get_stats or sys.exit(1)
Save ==
  /\ pc = "save" /\ ~exited
  /\ \E ok \in BOOLEAN :
       /\ saved' = IF ok THEN "ok" ELSE "fail"
       /\ output' = IF ok THEN writer ELSE output
       /\ stats' = stats_after_save(ok, writer, processed_files, failed_files)
       /\ IF ok
          THEN pc' = "report" /\ UNCHANGED << exited, exit_code >>
          ELSE pc' = pc /\ Exit(1)
  /\ UNCHANGED << files, input_dir, pattern, no_source, isfile, listing, pdf_files,
                  include_source, writer, processed_files, failed_files, calls,
                  escaped, summary >>

\* main: print the statistics and return
Report ==
  /\ pc = "report" /\ ~exited
  /\ summary' = TRUE
  /\ pc' = "done"
  /\ Exit(0)
  /\ UNCHANGED << files, input_dir, pattern, no_source, isfile, listing, pdf_files,
                  include_source, writer, processed_files, failed_files, calls,
                  escaped, saved, output, stats >>

Next == Resolve \/ Validate \/ AddPdf \/ Save \/ Report

Spec == Init /\ [][Next]_vars

\* --------------------------------------------------------------- claims
\* the paths add_pdf was called on, in call order
CallPaths == [i \in DOMAIN calls |-> calls[i].path]

IsValid(d) == d.kind = "pdf" /\ d.good = d.npages

RECURSIVE SumPages(_)
SumPages(cs) == IF cs = <<>> THEN 0 ELSE Head(cs).doc.npages + SumPages(Tail(cs))

\* the step is an add_pdf call on a document of kind k, and the call returned
AddPdfStepOn(k) ==
  /\ Len(calls') = Len(calls) + 1
  /\ calls'[Len(calls')].doc.kind = k
  /\ ~escaped'

\* C1: an add_pdf call on an encrypted document (one that returned) appends the path to
\* failed_files, leaves processed_files alone and leaves the number of output
\* pages as it was, with labeling enabled or disabled.
C1_EncryptedAddsNoPage ==
  [][ AddPdfStepOn("encrypted") =>
        /\ failed_files' = Append(failed_files, calls'[Len(calls')].path)
        /\ processed_files' = processed_files
        /\ Len(writer') = Len(writer) ]_vars

\* C2: when every document passed to add_pdf so far was valid and not
\* encrypted, the number of output pages is the sum of the documents' page
\* counts, plus one per document when labeling is enabled, and get_stats
\* reports that number as total_pages.
C2_PageCount ==
  (pc \in {"process", "save", "report", "done"} /\ \A i \in DOMAIN calls : IsValid(calls[i].doc)) =>
    /\ Len(writer) = SumPages(calls) + (IF include_source THEN Len(calls) ELSE 0)
    /\ stats # NoStats =>
         stats.total_pages = SumPages(calls) + (IF include_source THEN Len(calls) ELSE 0)

\* C2 witness: two valid documents of different page counts were stitched
\* with labeling enabled and the statistics were computed.
C2_Witness ==
  /\ stats # NoStats /\ include_source
  /\ Len(calls) = 2
  /\ IsValid(calls[1].doc) /\ IsValid(calls[2].doc)
  /\ calls[1].doc.npages # calls[2].doc.npages

\* the content pages of the output, in output order
RECURSIVE ContentOnly(_)
ContentOnly(w) ==
  IF w = <<>> THEN <<>>
  ELSE IF Head(w).kind = "content" THEN << Head(w) >> \o ContentOnly(Tail(w))
  ELSE ContentOnly(Tail(w))

\* the content pages the calls copied, in call order
RECURSIVE CopiedContent(_)
CopiedContent(cs) ==
  IF cs = <<>> THEN <<>>
  ELSE ContentPages(Head(cs).path, Head(cs).doc.good) \o CopiedContent(Tail(cs))

\* C3: the output is one block per file in the order the files were
\* processed: the content pages are those of the files in call order, each
\* file's in their original order, and every label page is immediately
\* followed by the first content page of the file it names.  Stated of the
\* runs in which every add_pdf call returned.
C3_BlockOrder ==
  ~escaped =>
    /\ ContentOnly(writer) = CopiedContent(calls)
    /\ \A i \in DOMAIN writer :
         writer[i].kind = "label" =>
           /\ i < Len(writer)
           /\ writer[i + 1] = ContentPage(writer[i].src, 1)

\* C4: every add_pdf call that returned has appended its path once to
\* exactly one of processed_files and failed_files, so the two lists together
\* are as long as the number of calls made, and as the resolved list once the
\* loop is over.
C4_ExactlyOneOutcome ==
  /\ ~escaped => Len(processed_files) + Len(failed_files) = Len(calls)
  /\ pc \in {"save", "report", "done"} =>
       Len(processed_files) + Len(failed_files) = Len(pdf_files)

\* nothing was opened, appended, recorded or written
NothingProcessed ==
  /\ calls = <<>> /\ writer = <<>>
  /\ processed_files = <<>> /\ failed_files = <<>>
  /\ saved = "none" /\ output = <<>>

\* the resolved list is empty or names a path that is not a file
ResolvedListBad ==
  pc # "start" /\ (pdf_files = <<>> \/ \E i \in DOMAIN pdf_files : pdf_files[i] \notin isfile)

\* the run never gets past validation and can only end non-zero
StopsBeforeProcessing ==
  /\ pc \in {"start", "validate"}
  /\ NothingProcessed
  /\ exited => exit_code # 0

\* C5 as stated: with an empty resolved list, a missing input directory or a
\* resolved path that is not a file, main exits non-zero before any file is
\* opened, any add_pdf call or any write.
C5_AsStated ==
  (input_dir = "missing" \/ ResolvedListBad) => StopsBeforeProcessing

\* C5 amended: the missing input directory counts only when no explicit files
\* were given.
C5_ConfigErrorsAreFatal ==
  ((files = <<>> /\ input_dir = "missing") \/ ResolvedListBad) => StopsBeforeProcessing

\* C5 witness: the second resolved path is not a file and main has exited.
C5_Witness ==
  /\ exited /\ pc = "validate"
  /\ Len(pdf_files) = 2
  /\ pdf_files[1] \in isfile /\ pdf_files[2] \notin isfile

C7_RunNeverAborted ==
  /\ ~escaped
  /\ Len(calls) <= Len(pdf_files)
  /\ CallPaths = SubSeq(pdf_files, 1, Len(calls))
  /\ pc \in {"save", "report", "done"} => CallPaths = pdf_files
  /\ (exited /\ pc \notin {"start", "validate"}) => saved # "none"

\* C8: the exit code is non-zero exactly when no input files were resolved,
\* a specified directory does not exist, a resolved file does not exist or
\* the write failed.
C8_ExitCode ==
  exited =>
    (exit_code # 0 <=>
       \/ pdf_files = <<>>
       \/ input_dir = "missing"
       \/ \E i \in DOMAIN pdf_files : pdf_files[i] \notin isfile
       \/ saved = "fail")

IsSortedAscending(s) == \A i, j \in DOMAIN s : i < j => LexLess(s[i], s[j])

\* the set of elements of a sequence
Range(s) == { s[i] : i \in DOMAIN s }

\* C9: with explicit files the resolved list is those files in caller order,
\* whatever the input directory and pattern are; otherwise it is the set of
\* glob matches of the pattern, in ascending lexicographic order.
C9_ResolvedList ==
  /\ (files # <<>> /\ pc = "start") => ~exited
  /\ (files # <<>> /\ pc # "start") => pdf_files = files
  /\ (files = <<>> /\ pc # "start") =>
       /\ IsSortedAscending(pdf_files)
       /\ Range(pdf_files) = Matches(pattern)
       /\ Len(pdf_files) = Cardinality(Matches(pattern))

\* C9 witness: directory mode, the file system listed three matches in an
\* order that is not the sorted one.
C9_Witness ==
  /\ pc # "start" /\ files = <<>>
  /\ Len(listing) = 3
  /\ listing # pdf_files

\* C10: an add_pdf call that fails because the file cannot be opened or
\* parsed (and returns False) leaves the output page sequence unchanged.
C10_OpenFailureAddsNoPage ==
  [][ AddPdfStepOn("corrupt") => writer' = writer ]_vars

====
